---- MODULE Spec2Model ----
(***************************************************************************)
(* Model of src/assignment-1.js: the inverted index built by index() and   *)
(* the AND queries answered by query().                                    *)
(*                                                                         *)
(* A JavaScript string is a sequence of one-character strings, so that     *)
(* preprocess, split, toLowerCase and the hashtag rule are computed        *)
(* character by character as the code does.  A postings list (a chain of   *)
(* PostingsListItem objects) is the sequence of its documentIds from the   *)
(* head on; the end of a chain, `undefined`, is the empty sequence, and so *)
(* is the head that dictionary.get(term)?.postingsList yields for a term   *)
(* that is no key.                                                         *)
(***************************************************************************)
EXTENDS Integers, Sequences, FiniteSets, TLC

\* ------------------------------------------------------------------------
\* Bounds of the model
\* ------------------------------------------------------------------------

\* Largest number of lines in the input file.
MaxRecords == 3

\* Largest number of terms passed to one call of query().
MaxTerms == 3

\* ------------------------------------------------------------------------
\* Strings
\* ------------------------------------------------------------------------

\* The value of a destructured field that line.split() did not produce.  It
\* is no string: every string is a sequence of one-character strings.
Undefined == <<"undefined">>

\* JavaScript truthiness of a string or undefined (!x is its negation).
Truthy(x) == x # Undefined /\ x # <<>>

UpperCase == <<"A", "B", "C", "D", "E", "F", "G", "H", "I", "J", "K", "L", "M",
               "N", "O", "P", "Q", "R", "S", "T", "U", "V", "W", "X", "Y", "Z">>

LowerCase == <<"a", "b", "c", "d", "e", "f", "g", "h", "i", "j", "k", "l", "m",
               "n", "o", "p", "q", "r", "s", "t", "u", "v", "w", "x", "y", "z">>

\* The class \d of the regular expression of preprocess.
DigitChars == {"0", "1", "2", "3", "4", "5", "6", "7", "8", "9"}

\* The class \w of the regular expression of preprocess.
WordChars ==
    {UpperCase[i] : i \in 1..26} \cup {LowerCase[i] : i \in 1..26}
        \cup DigitChars \cup {"_"}

NEWLINE_MARKER == <<"[", "N", "E", "W", "L", "I", "N", "E", "]">>

TAB_MARKER == <<"[", "T", "A", "B", "]">>

\* CSV separator token
SEPARATOR == "\t"

startsWith(s, p) == Len(s) >= Len(p) /\ SubSeq(s, 1, Len(p)) = p

Drop(s, n) == SubSeq(s, n + 1, Len(s))

includes(arr, x) == \E i \in 1..Len(arr) : arr[i] = x

\* String.prototype.split with a one-character separator.
RECURSIVE split(_, _)
split(s, sep) ==
    IF \A i \in 1..Len(s) : s[i] # sep
    THEN <<s>>
    ELSE LET i == CHOOSE k \in 1..Len(s) :
                      s[k] = sep /\ \A j \in 1..(k - 1) : s[j] # sep
         IN  <<SubSeq(s, 1, i - 1)>> \o split(Drop(s, i), sep)

toLowerChar(c) ==
    IF \E i \in 1..26 : UpperCase[i] = c
    THEN LowerCase[CHOOSE i \in 1..26 : UpperCase[i] = c]
    ELSE c

toLowerCase(s) == [i \in 1..Len(s) |-> toLowerChar(s[i])]

\* ------------------------------------------------------------------------
\* Text normalizer
\* ------------------------------------------------------------------------

\* text.replace(/\[NEWLINE\]|\[TAB\]|[^\d\w#]/g, " "): left to right, the
\* first alternative that matches at a position is replaced by one space.
RECURSIVE preprocess(_)
preprocess(text) ==
    IF text = <<>> THEN <<>>
    ELSE IF startsWith(text, NEWLINE_MARKER)
    THEN <<" ">> \o preprocess(Drop(text, Len(NEWLINE_MARKER)))
    ELSE IF startsWith(text, TAB_MARKER)
    THEN <<" ">> \o preprocess(Drop(text, Len(TAB_MARKER)))
    ELSE IF Head(text) \notin (DigitChars \cup WordChars \cup {"#"})
    THEN <<" ">> \o preprocess(Tail(text))
    ELSE <<Head(text)>> \o preprocess(Tail(text))

tokenize(text) == SelectSeq(split(text, " "), LAMBDA el : el # <<>>)

normalize(tokens) == [i \in 1..Len(tokens) |-> toLowerCase(tokens[i])]

\* token.replace(/#/, ""): the first "#" of the token is removed.
withoutHashtag(token) ==
    IF \A i \in 1..Len(token) : token[i] # "#"
    THEN token
    ELSE LET i == CHOOSE k \in 1..Len(token) :
                      token[k] = "#" /\ \A j \in 1..(k - 1) : token[j] # "#"
         IN  SubSeq(token, 1, i - 1) \o Drop(token, i)

\* collectStep without the test that drops a token already collected.
collectStep_noDedupe(types, token) ==
    IF startsWith(token, <<"#">>)
    THEN LET tokenWithoutHashtag == withoutHashtag(token)
         IN  IF includes(types, tokenWithoutHashtag)
             THEN types \o <<token>>
             ELSE types \o <<token, tokenWithoutHashtag>>
    ELSE types \o <<token>>

\* The callback of the reduce in collectTypes.
collectStep(types, token) ==
    IF includes(types, token) THEN types
    ELSE IF startsWith(token, <<"#">>)
    THEN LET tokenWithoutHashtag == withoutHashtag(token)
         IN  IF includes(types, tokenWithoutHashtag)
             THEN types \o <<token>>
             ELSE types \o <<token, tokenWithoutHashtag>>
    ELSE types \o <<token>>

RECURSIVE reduceTypes(_, _)
reduceTypes(types, tokens) ==
    IF tokens = <<>> THEN types
    ELSE reduceTypes(collectStep(types, Head(tokens)), Tail(tokens))

collectTypes(tokens) == reduceTypes(<<>>, tokens)

\* ------------------------------------------------------------------------
\* Inputs: the lines of the file and the terms callers query with
\* ------------------------------------------------------------------------

\* One line of the tab-separated file: id, userId, userName, tweetText.
Row(id, tweetText) ==
    id \o <<SEPARATOR, "7", SEPARATOR, "u", SEPARATOR>> \o tweetText

\* "a[TAB]b.b #B": a marker, punctuation, a repeated token, an upper-case
\* letter, and a hashtag whose word is already a type.
LineWords ==
    Row(<<"p">>,
        <<"a", "[", "T", "A", "B", "]", "b", ".", "b", " ", "#", "B">>)

\* "A ##b #b": a hashtag that is the stripped form of an earlier token.
LineHashtags == Row(<<"q">>, <<"A", " ", "#", "#", "b", " ", "#", "b">>)

\* "!": a non-empty text with nothing to index.
LinePunctuation == Row(<<"r">>, <<"!">>)

\* A line whose text field is the empty string.
LineEmptyText == Row(<<"s">>, <<>>)

\* A line with no separator: the text field is absent.
LineNoText == <<"t">>

Lines ==
    {LineWords, LineHashtags, LinePunctuation, LineEmptyText, LineNoText}

TermA == <<"a">>

TermB == <<"b">>

TermHashB == <<"#", "b">>

QueryTerms == {TermA, TermB, TermHashB}

\* The scenario of the two tweets.
TweetT1 == <<"s", "i", "d", "e", " ", "e", "f", "f", "e", "c", "t", "s", " ", "o", "f", " ", "t", "h", "e", " ", "v", "a", "c", "c", "i", "n", "e">>

TweetT2 == <<"s", "i", "d", "e", " ", "e", "f", "f", "e", "c", "t", "s", " ", "o", "f", " ", "m", "a", "l", "a", "r", "i", "a", " ", "v", "a", "c", "c", "i", "n", "e">>

IdT1 == <<"t", "1">>

IdT2 == <<"t", "2">>

ScenarioSource == <<Row(IdT1, TweetT1), Row(IdT2, TweetT2)>>

TermSide == <<"s", "i", "d", "e">>

TermEffect == <<"e", "f", "f", "e", "c", "t">>

TermEffects == <<"e", "f", "f", "e", "c", "t", "s">>

TermMalaria == <<"m", "a", "l", "a", "r", "i", "a">>

TermVaccine == <<"v", "a", "c", "c", "i", "n", "e">>

TermThe == <<"t", "h", "e">>

ScenarioTerms ==
    {TermSide, TermEffect, TermEffects, TermMalaria, TermVaccine, TermThe}

SeqsUpTo(S, n) == UNION {[1..k -> S] : k \in 0..n}

\* ------------------------------------------------------------------------
\* State
\* ------------------------------------------------------------------------

VARIABLES
    source,      \* the lines of the file at `path`
    vocab,       \* the terms callers of query() choose from
    pc,          \* "index", "built", "merge", "collect" or "done"
    pos,         \* number of lines the reader rl has delivered
    lineNumber,  \* index(): let lineNumber
    dictionary,  \* index(): the Map, term -> {term, size, postingsList}
    ids,         \* index(): the sparse array ids
    normalized,  \* index(): const normalized, of the last line tokenized
    types,       \* index(): const types, of the last line tokenized
    collected,   \* what collectTypes returned for each line read so far
    terms,       \* query(): ...terms
    allItems,    \* query(): the heads not yet taken
    taken,       \* the heads taken from allItems so far, in order
    itemA,       \* query(): let itemA
    itemB,       \* query(): let itemB
    resultList,  \* query(): resultList.nextPosting
    result,      \* query(): const result, the documentIds collected
    returned     \* query(): the array returned

vars ==
    <<source, vocab, pc, pos, lineNumber, dictionary, ids, normalized, types,
      collected, terms, allItems, taken, itemA, itemB, resultList, result, returned>>

indexVars == <<lineNumber, dictionary, ids, normalized, types, collected>>

queryVars == <<terms, allItems, taken, itemA, itemB, resultList, result, returned>>

\* The state index() starts from, before any call of query().
Start ==
    /\ pc = "index"
    /\ pos = 0
    /\ lineNumber = 0
    /\ dictionary = <<>>
    /\ ids = <<>>
    /\ normalized = <<>>
    /\ types = <<>>
    /\ collected = <<>>
    /\ terms = <<>>
    /\ allItems = <<>>
    /\ taken = <<>>
    /\ itemA = <<>>
    /\ itemB = <<>>
    /\ resultList = <<>>
    /\ result = <<>>
    /\ returned = <<>>

Init ==
    /\ source \in SeqsUpTo(Lines, MaxRecords)
    /\ vocab = QueryTerms
    /\ Start

InitScenario ==
    /\ source = ScenarioSource
    /\ vocab = ScenarioTerms
    /\ Start

\* ------------------------------------------------------------------------
\* index(path)
\* ------------------------------------------------------------------------

\* const [id, userId, userName, tweetText] = line.split(SEPARATOR)
field(parts, n) == IF n <= Len(parts) THEN parts[n] ELSE Undefined

\* new PostingsListItem(documentId, nextPosting)
PostingsListItem(documentId, nextPosting) == <<documentId>> \o nextPosting

\* The dictionary item of a type that has none yet.
newItem(type, line) ==
    [term |-> type, size |-> 1, postingsList |-> PostingsListItem(line, <<>>)]

\* updatedItem with the new posting put at the end of the list.
updatedItem_append(dictionaryItem, line) ==
    [dictionaryItem EXCEPT
        !.size = @ + 1,
        !.postingsList = dictionaryItem.postingsList \o <<line>>]

\* updatedItem with the new posting not linked to the list there was.
updatedItem_unlinked(dictionaryItem, line) ==
    [dictionaryItem EXCEPT
        !.size = @ + 1,
        !.postingsList = <<line>>]

\* The dictionary item of a type that has one already.
updatedItem(dictionaryItem, line) ==
    [dictionaryItem EXCEPT
        !.size = @ + 1,
        !.postingsList = PostingsListItem(line, dictionaryItem.postingsList)]

\* The callback of types.forEach.
setType(dict, type, line) ==
    IF type \in DOMAIN dict
    THEN [dict EXCEPT ![type] = updatedItem(dict[type], line)]
    ELSE (type :> newItem(type, line)) @@ dict

RECURSIVE forEachType(_, _, _)
forEachType(dict, typeList, line) ==
    IF typeList = <<>> THEN dict
    ELSE forEachType(setType(dict, Head(typeList), line), Tail(typeList), line)

\* afterSkip with the increment before `continue` left out.
afterSkip_forgotten(line) == line

\* The value of lineNumber after a line that is skipped.
afterSkip(line) == line + 1

\* One pass of the for await loop: the next line is read and processed.
IndexLine ==
    /\ pc = "index"
    /\ pos < Len(source)
    /\ pos' = pos + 1
    /\ LET parts == split(source[pos + 1], SEPARATOR)
           id == field(parts, 1)
           tweetText == field(parts, 4)
           preprocessed == preprocess(tweetText)
       IN  IF ~Truthy(tweetText)
           THEN /\ lineNumber' = afterSkip(lineNumber)
                /\ collected' = Append(collected, <<>>)
                /\ UNCHANGED <<dictionary, ids, normalized, types>>
           ELSE IF ~Truthy(preprocessed)
           THEN /\ lineNumber' = afterSkip(lineNumber)
                /\ collected' = Append(collected, <<>>)
                /\ UNCHANGED <<dictionary, ids, normalized, types>>
           ELSE /\ normalized' = normalize(tokenize(preprocessed))
                /\ types' = collectTypes(normalized')
                /\ collected' = Append(collected, types')
                /\ dictionary' = forEachType(dictionary, types', lineNumber)
                /\ ids' = (lineNumber :> id) @@ ids
                /\ lineNumber' = lineNumber + 1
    /\ UNCHANGED <<source, vocab, pc>>
    /\ UNCHANGED queryVars

\* The reader is exhausted: index() returns [dictionary, ids].
IndexReturn ==
    /\ pc = "index"
    /\ pos = Len(source)
    /\ pc' = "built"
    /\ UNCHANGED <<source, vocab, pos>>
    /\ UNCHANGED indexVars
    /\ UNCHANGED queryVars

\* ------------------------------------------------------------------------
\* query(dictionary, idsMap, ...terms)
\* ------------------------------------------------------------------------

\* dictionary.get(term)?.postingsList
postingsOf(dict, term) ==
    IF term \in DOMAIN dict THEN dict[term].postingsList ELSE <<>>

\* idsMap[result]: a hole of the sparse array reads as undefined.
idsGet(idsMap, i) == IF i \in DOMAIN idsMap THEN idsMap[i] ELSE Undefined

\* result.map((result) => idsMap[result])
mapIds(idsMap, res) == [i \in 1..Len(res) |-> idsGet(idsMap, res[i])]

\* (a, b) => a.size - b.size, called on two PostingsListItem objects: they
\* have a documentId and a nextPosting but no size, undefined - undefined is
\* NaN, and Array.prototype.sort takes a NaN from the comparator as +0.
compareItems(a, b) == 0

\* Stable insertion of x behind every element that does not compare above it.
RECURSIVE insertItem(_, _)
insertItem(sorted, x) ==
    IF sorted # <<>> /\ compareItems(sorted[Len(sorted)], x) > 0
    THEN Append(insertItem(SubSeq(sorted, 1, Len(sorted) - 1), x),
                sorted[Len(sorted)])
    ELSE Append(sorted, x)

RECURSIVE stableSort(_)
stableSort(items) ==
    IF items = <<>> THEN <<>>
    ELSE insertItem(stableSort(SubSeq(items, 1, Len(items) - 1)),
                    items[Len(items)])

\* allItems.sort(...): undefined elements are never handed to the comparator
\* and end up behind all others; the sort is stable.
sortItems(items) ==
    stableSort(SelectSeq(items, LAMBDA h : h # <<>>))
        \o SelectSeq(items, LAMBDA h : h = <<>>)

\* allItems.shift(): the first element, or undefined of an empty array.
shifted(items) == IF items = <<>> THEN <<>> ELSE Head(items)

afterShift(items) == IF items = <<>> THEN <<>> ELSE Tail(items)

\* The shifts the history variable records: one per element removed.
takenBy(items) == IF items = <<>> THEN <<>> ELSE <<Head(items)>>

\* appendResult with the new item put in front of the results list.
appendResult_prepend(list, documentId) == <<documentId>> \o list

\* currentResultEnd.nextPosting = new PostingsListItem(documentId, undefined)
appendResult(list, documentId) == list \o PostingsListItem(documentId, <<>>)

\* A call of query(): the single-term branch returns at once, the other one
\* sorts the heads and takes the first two.
QueryCall ==
    /\ pc = "built"
    /\ \E ts \in SeqsUpTo(vocab, MaxTerms) :
        /\ Len(ts) >= 1
        /\ terms' = ts
        /\ IF Len(ts) = 1
           THEN /\ result' = postingsOf(dictionary, ts[1])
                /\ returned' = mapIds(ids, result')
                /\ allItems' = <<>>
                /\ taken' = <<>>
                /\ itemA' = <<>>
                /\ itemB' = <<>>
                /\ resultList' = <<>>
                /\ pc' = "done"
           ELSE LET sorted ==
                        sortItems([i \in 1..Len(ts) |-> postingsOf(dictionary, ts[i])])
                IN  /\ itemA' = shifted(sorted)
                    /\ itemB' = shifted(afterShift(sorted))
                    /\ allItems' = afterShift(afterShift(sorted))
                    /\ taken' = takenBy(sorted) \o takenBy(afterShift(sorted))
                    /\ resultList' = <<>>
                    /\ result' = <<>>
                    /\ returned' = <<>>
                    /\ pc' = "merge"
    /\ UNCHANGED <<source, vocab, pos>>
    /\ UNCHANGED indexVars

\* One pass of the inner while loop.
Compare ==
    /\ pc = "merge"
    /\ itemA # <<>> /\ itemB # <<>>
    /\ IF Head(itemA) = Head(itemB)
       THEN /\ resultList' = appendResult(resultList, Head(itemA))
            /\ itemA' = Tail(itemA)
            /\ itemB' = Tail(itemB)
       ELSE IF Head(itemA) > Head(itemB)
       THEN /\ itemA' = Tail(itemA)
            /\ UNCHANGED <<itemB, resultList>>
       ELSE /\ itemB' = Tail(itemB)
            /\ UNCHANGED <<itemA, resultList>>
    /\ UNCHANGED <<source, vocab, pc, pos, terms, allItems, taken, result, returned>>
    /\ UNCHANGED indexVars

\* The two lists are compared: go on with the possible results and one new
\* list, or leave the do-while loop.
NextList ==
    /\ pc = "merge"
    /\ ~(itemA # <<>> /\ itemB # <<>>)
    /\ itemA' = resultList
    /\ itemB' = shifted(allItems)
    /\ allItems' = afterShift(allItems)
    /\ taken' = taken \o takenBy(allItems)
    /\ IF itemA' # <<>> /\ itemB' # <<>>
       THEN /\ resultList' = <<>>
            /\ pc' = IF Len(allItems') > 0 \/ (itemA' # <<>> /\ itemB' # <<>>)
                     THEN "merge" ELSE "collect"
       ELSE /\ resultList' = resultList
            /\ pc' = "collect"
    /\ UNCHANGED <<source, vocab, pos, terms, result, returned>>
    /\ UNCHANGED indexVars

\* The result array is created from the result postings list and returned.
QueryReturn ==
    /\ pc = "collect"
    /\ result' = resultList
    /\ returned' = mapIds(ids, result')
    /\ pc' = "done"
    /\ UNCHANGED <<source, vocab, pos, terms, allItems, taken, itemA, itemB, resultList>>
    /\ UNCHANGED indexVars

\* The caller has used the array returned (it is logged); the locals of the
\* call are gone and the next call of query() can follow.
QueryExit ==
    /\ pc = "done"
    /\ pc' = "built"
    /\ terms' = <<>>
    /\ allItems' = <<>>
    /\ taken' = <<>>
    /\ itemA' = <<>>
    /\ itemB' = <<>>
    /\ resultList' = <<>>
    /\ result' = <<>>
    /\ returned' = <<>>
    /\ UNCHANGED <<source, vocab, pos>>
    /\ UNCHANGED indexVars

Next ==
    \/ IndexLine
    \/ IndexReturn
    \/ QueryCall
    \/ Compare
    \/ NextList
    \/ QueryReturn
    \/ QueryExit

Spec == Init /\ [][Next]_vars

SpecScenario == InitScenario /\ [][Next]_vars

\* ------------------------------------------------------------------------
\* Vocabulary of the properties
\* ------------------------------------------------------------------------

Range(seq) == {seq[i] : i \in 1..Len(seq)}

Count(seq, x) == Cardinality({i \in 1..Len(seq) : seq[i] = x})

StrictlyDescending(seq) == \A i \in 1..(Len(seq) - 1) : seq[i] > seq[i + 1]

NoDuplicates(seq) == \A i, j \in 1..Len(seq) : seq[i] = seq[j] => i = j

\* The fields of the k-th line read and the internal id of its position.
idOfLine(k) == field(split(source[k], SEPARATOR), 1)

positionOfLine(k) == k - 1

\* The documentIds found in some postings list of the dictionary.
PostedIds ==
    UNION {Range(dictionary[t].postingsList) : t \in DOMAIN dictionary}

\* The external ids a single-term query for term returns.
SingleTermResult(term) == Range(mapIds(ids, postingsOf(dictionary, term)))

\* The stored document frequency of the term that owns a postings head.
sizeOfHead(h) ==
    dictionary[CHOOSE t \in DOMAIN dictionary :
                   dictionary[t].postingsList = h].size

\* Every dictionary item stores its term and the length of its list.
ItemsConsistent ==
    \A t \in DOMAIN dictionary :
        /\ dictionary[t].term = t
        /\ dictionary[t].size = Len(dictionary[t].postingsList)

\* ------------------------------------------------------------------------
\* Properties
\* ------------------------------------------------------------------------

\* C1: a query of two or more terms returns exactly the external ids that
\* every one of its terms' single-term queries returns, also when some term
\* is no dictionary key.
C1_MultiTermIsIntersection ==
    (pc = "done" /\ Len(terms) >= 2) =>
        Range(returned) =
            {e \in SingleTermResult(terms[1]) :
                \A k \in 1..Len(terms) : e \in SingleTermResult(terms[k])}

\* C2: a query with at least one term that is no dictionary key returns the
\* empty sequence, whatever the other terms are.
C2_AbsentTermEmptiesResult ==
    (pc = "done" /\ \E k \in 1..Len(terms) : terms[k] \notin DOMAIN dictionary)
        => returned = <<>>

\* C3: after any prefix of the lines, every postings list of the dictionary
\* is non-empty, strictly descending in documentId from the head on, and
\* holds no documentId twice.
C3_PostingsDescending ==
    \A t \in DOMAIN dictionary :
        /\ dictionary[t].postingsList # <<>>
        /\ StrictlyDescending(dictionary[t].postingsList)
        /\ NoDuplicates(dictionary[t].postingsList)

\* C3 witness: the same term was indexed for three lines, the list reads
\* 2, 1, 0.
C3_Witness ==
    \E t \in DOMAIN dictionary : dictionary[t].postingsList = <<2, 1, 0>>

\* C4: every type of every line read with a non-empty text is a dictionary
\* key whose postings list holds that line's internal id exactly once, also
\* after later lines are processed.
C4_TypesPosted ==
    \A k \in 1..pos :
        \A i \in 1..Len(collected[k]) :
            /\ collected[k][i] \in DOMAIN dictionary
            /\ Count(dictionary[collected[k][i]].postingsList,
                     positionOfLine(k)) = 1

\* C4 witness: a line with three types, one of them from a repeated token,
\* was followed by two more lines that share a type with it.
C4_Witness ==
    /\ pos = 3
    /\ source[1] = LineWords
    /\ source[2] = LineHashtags
    /\ source[3] = LineWords
    /\ dictionary[TermB].postingsList = <<2, 0>>

\* C5: the internal id of a line is its 0-based position among the lines
\* read, skipped ones counted; the position of a line skipped for an empty
\* or absent text is in no postings list and has no entry in ids; every id
\* in a postings list has an entry, so no element returned is undefined.
C5_PositionsAndHoles ==
    /\ lineNumber = pos
    /\ \A k \in 1..pos :
        LET parts == split(source[k], SEPARATOR)
        IN  IF Truthy(field(parts, 4))
            THEN /\ positionOfLine(k) \in DOMAIN ids
                 /\ ids[positionOfLine(k)] = field(parts, 1)
            ELSE /\ positionOfLine(k) \notin DOMAIN ids
                 /\ positionOfLine(k) \notin PostedIds
    /\ PostedIds \subseteq DOMAIN ids
    /\ \A i \in 1..Len(returned) : returned[i] # Undefined

\* C5 witness: a line without text and a line with an empty text were
\* skipped, the third line was indexed under id 2 and a query returned it.
C5_Witness ==
    /\ pc = "done"
    /\ source = <<LineNoText, LineEmptyText, LineWords>>
    /\ DOMAIN ids = {2}
    /\ returned = <<idOfLine(3)>>

\* C6: the internal ids behind the array a query returns are strictly
\* descending, and so is every intermediate list of possible results.
C6_ResultsDescending ==
    /\ StrictlyDescending(resultList)
    /\ StrictlyDescending(itemA)
    /\ StrictlyDescending(itemB)
    /\ StrictlyDescending(result)
    /\ returned = mapIds(ids, result)

\* C6 witness: a query of three terms went through two merges and returned
\* two documents.
C6_Witness ==
    /\ pc = "done"
    /\ Len(terms) = 3
    /\ Len(taken) = 3
    /\ result = <<2, 0>>

\* C7: collectTypes returns no string twice, returns every token it was
\* given, and for every token that starts with "#" also returns the token
\* without its leading "#".
C7_TypesExpandHashtags ==
    /\ NoDuplicates(types)
    /\ \A i \in 1..Len(normalized) :
        /\ normalized[i] \in Range(types)
        /\ startsWith(normalized[i], <<"#">>) => Tail(normalized[i]) \in Range(types)

\* C8 as stated: after the two tweets t1 and t2, the query for "side" and
\* "effect" returns both t1 and t2, and the query for "malaria" and "vaccine"
\* returns only t2.
C8_ScenarioAsStated ==
    pc = "done" =>
        /\ terms = <<TermSide, TermEffect>> => Range(returned) = {IdT1, IdT2}
        /\ terms = <<TermMalaria, TermVaccine>> => returned = <<IdT2>>

\* C8 amended: after the two tweets t1 and t2, the query for "side" and
\* "effects" returns both t1 and t2, the query for "side" and "effect"
\* returns nothing ("effect" is no type of either tweet), and the query for
\* "malaria" and "vaccine" returns only t2.
C8_Scenario ==
    pc = "done" =>
        /\ terms = <<TermSide, TermEffects>> =>
                Range(returned) = {IdT1, IdT2} /\ Len(returned) = 2
        /\ terms = <<TermSide, TermEffect>> => returned = <<>>
        /\ terms = <<TermMalaria, TermVaccine>> => returned = <<IdT2>>

\* C8 witness: the query for "side" and "effects" has returned two ids.
C8_Witness ==
    /\ pc = "done"
    /\ source = ScenarioSource
    /\ terms = <<TermSide, TermEffects>>
    /\ Len(returned) = 2

\* C9: the postings lists of a multi-term query are taken in ascending order
\* of stored document frequency: the first two taken are the two smallest of
\* the query, and each one taken later is no smaller than any taken before.
C9_TakenBySize ==
    LET present == SelectSeq(taken \o allItems, LAMBDA h : h # <<>>)
    IN  /\ \A i \in 1..Len(present) : \A j \in 1..Len(present) :
                (i <= 2 /\ j > 2) => sizeOfHead(present[i]) <= sizeOfHead(present[j])
        /\ \A i \in 1..Len(present) : \A j \in 1..Len(present) :
                (2 < i /\ i < j) => sizeOfHead(present[i]) <= sizeOfHead(present[j])

\* C10: ids has an entry at i only if line i was indexed, that is, i is in
\* some postings list; a line whose text has nothing to index leaves a hole.
C10_EntriesOnlyForIndexed ==
    DOMAIN ids \subseteq PostedIds

====
